---- MODULE Spec2Model ----
(***************************************************************************)
(* wifiScanner: the Session tracker (scanner package, session file) and    *)
(* the sparkline derivation, modelled from the Go source.                  *)
(*                                                                         *)
(* A *NetworkState is a pointer: the map `states` plays the heap, a        *)
(* pointer to the NetworkState of a BSSID is that BSSID, NilPtr is nil.    *)
(* Time is an integer clock; the zero time.Time is ZeroTime.               *)
(***************************************************************************)
EXTENDS Integers, Sequences, FiniteSets, TLC

\* ---------------------------------------------------------------- constants
maxHistory == 10

\* ------------------------------------------------------------------- bounds
\* BSSIDs in play; longest batch; samples the concurrent callers hand to
\* Update in all; samples the single caller hands to Update; longest history
\* rendered with several samples.
NumAddr == 2
MaxBatch == 2
MaxConcSamples == 2
MaxSamples == 12
MaxSparkLen == 2
MaxBlocks == 3
MaxLines == 2
LongTextBlocks == 50
MaxScans == 2
MaxClock == 32
newBadgeTTL == 30
alertSleep == 5

BSSIDs == 1..NumAddr
\* Two goroutines call into the Session.
Threads == {1, 2}
\* Samples rendered one at a time: every integer from 12 dBm below the
\* mapped range to 12 dBm above it; and those rendered in longer histories.
SparkSamples == (0 - 112)..(0 - 8)
CoarseSamples == {0 - 112, 0 - 100, 0 - 90, 0 - 60, 0 - 20, 0 - 8}
ZeroTime == 0
NilPtr == 0
NoThread == 0

\* Signal values (dBm) the callers submit; 0 is a legal reading.
Signals == {0 - 40, 0}

\* scanner.Network, restricted to the fields Session.Update reads.
Network(B) == [BSSID : B, Signal : Signals]

RECURSIVE SeqsUpTo(_, _)
SeqsUpTo(S, n) ==
    IF n = 0 THEN {<<>>}
    ELSE LET shorter == SeqsUpTo(S, n - 1)
         IN shorter \cup {Append(q, x) : q \in {r \in shorter : Len(r) = n - 1}, x \in S}

\* The batches a caller may pass to Update with room for n more samples.
BatchesWithin(n) == SeqsUpTo(Network(BSSIDs), IF n < MaxBatch THEN n ELSE MaxBatch)
\* The same, all about one BSSID.
OneBatchesWithin(n) == SeqsUpTo(Network({1}), IF n < MaxBatch THEN n ELSE MaxBatch)

\* Go's integer division truncates toward zero.
GoDiv(a, b) ==
    IF a >= 0 THEN a \div b ELSE 0 - ((0 - a) \div b)

\* ------------------------------------------------------------ Sparkline
\* sparkBlocks, as Unicode code points U+2581 .. U+2588 (lower one eighth
\* block .. full block), indexed from 0 in the source and from 1 here.
sparkBlocks == <<9601, 9602, 9603, 9604, 9605, 9606, 9607, 9608>>

SparkIdxRounded(sig) ==
    LET n == (sig + 100) * 7
        q == IF n >= 0 THEN (2 * n + 80) \div 160
                      ELSE 0 - ((2 * (0 - n) + 80) \div 160)
    IN IF q < 0 THEN 0 ELSE IF q > 7 THEN 7 ELSE q

\* idx of one sample: (sig + 100) * 7 / 80, clamped to 0..7.
SparkIdx(sig) ==
    LET idx == GoDiv((sig + 100) * 7, 80)
    IN IF idx < 0 THEN 0 ELSE IF idx > 7 THEN 7 ELSE idx

SparklineReversed(SignalHistory) ==
    [k \in 1..Len(SignalHistory) |->
        sparkBlocks[SparkIdx(SignalHistory[Len(SignalHistory) + 1 - k]) + 1]]

\* NetworkState.Sparkline: the string, as the sequence of its runes.
Sparkline(SignalHistory) ==
    IF Len(SignalHistory) = 0 THEN <<>>
    ELSE [k \in 1..Len(SignalHistory) |-> sparkBlocks[SparkIdx(SignalHistory[k]) + 1]]

\* ------------------------------------------------------ Session.Update
\* The NetworkState literal of the !exists branch; LastSeen and
\* SignalHistory keep their zero values.
NewNetworkState(net, t) ==
    [BSSID |-> net.BSSID, FirstSeen |-> t, LastSeen |-> ZeroTime,
     SignalHistory |-> <<>>, MinSignal |-> net.Signal, MaxSignal |-> net.Signal]

ExistsNever(st, bssid) == FALSE

Exists(st, bssid) == bssid \in DOMAIN st

StoreNewAlone(st, net, t) == (net.BSSID :> NewNetworkState(net, t))

\* s.states[net.BSSID] = state
StoreNew(st, net, t) == (net.BSSID :> NewNetworkState(net, t)) @@ st

SetBothSeen(st, net, t) ==
    [st EXCEPT ![net.BSSID].LastSeen = t, ![net.BSSID].FirstSeen = t]

\* state.LastSeen = now
SetLastSeen(st, net, t) == [st EXCEPT ![net.BSSID].LastSeen = t]

TrackMinLast(st, net) == [st EXCEPT ![net.BSSID].MinSignal = net.Signal]

\* if net.Signal < state.MinSignal { state.MinSignal = net.Signal }
TrackMin(st, net) ==
    IF net.Signal < st[net.BSSID].MinSignal
    THEN [st EXCEPT ![net.BSSID].MinSignal = net.Signal] ELSE st

\* if net.Signal > state.MaxSignal { state.MaxSignal = net.Signal }
TrackMax(st, net) ==
    IF net.Signal > st[net.BSSID].MaxSignal
    THEN [st EXCEPT ![net.BSSID].MaxSignal = net.Signal] ELSE st

\* state.SignalHistory = append(state.SignalHistory, net.Signal)
AppendHistory(st, net) ==
    [st EXCEPT ![net.BSSID].SignalHistory = Append(@, net.Signal)]

TrimHistoryKeepOldest(st, net) ==
    LET h == st[net.BSSID].SignalHistory
    IN IF Len(h) > maxHistory
       THEN [st EXCEPT ![net.BSSID].SignalHistory = SubSeq(h, 1, maxHistory)]
       ELSE st

\* if len(h) > maxHistory { h = h[len(h)-maxHistory:] }
TrimHistory(st, net) ==
    LET h == st[net.BSSID].SignalHistory
    IN IF Len(h) > maxHistory
       THEN [st EXCEPT ![net.BSSID].SignalHistory =
                          SubSeq(h, Len(h) - maxHistory + 1, Len(h))]
       ELSE st

\* One iteration of the loop over networks: the map and newBSSIDs after it.
UpdateOne(acc, net, t) ==
    LET isNew == ~Exists(acc.states, net.BSSID)
        s1 == IF isNew THEN StoreNew(acc.states, net, t) ELSE acc.states
        n1 == IF isNew THEN Append(acc.newBSSIDs, net.BSSID) ELSE acc.newBSSIDs
        s2 == SetLastSeen(s1, net, t)
        s3 == TrackMin(s2, net)
        s4 == TrackMax(s3, net)
        s5 == AppendHistory(s4, net)
        s6 == TrimHistory(s5, net)
    IN [states |-> s6, newBSSIDs |-> n1]

RECURSIVE UpdateFrom(_, _, _, _)
UpdateFrom(acc, networks, k, t) ==
    IF k > Len(networks) THEN acc
    ELSE UpdateFrom(UpdateOne(acc, networks[k], t), networks, k + 1, t)

\* Session.Update run from Lock to Unlock: the map and the returned list.
Update(st, networks, t) ==
    UpdateFrom([states |-> st, newBSSIDs |-> <<>>], networks, 1, t)

GetAlways(st, bssid) == bssid

\* Session.Get: s.states[bssid], nil when the key is absent.
Get(st, bssid) == IF bssid \in DOMAIN st THEN bssid ELSE NilPtr

\* Session.Count: len(s.states).
Count(st) == Cardinality(DOMAIN st)

\* ------------------------------------------------------------------ state
VARIABLES
    states,      \* Session.states: BSSID -> NetworkState (the heap of *NetworkState)
    mu,          \* Session.mu: the thread holding it, NoThread when unlocked
    clock,       \* what time.Now() returns
    pc,          \* per thread: where it stands in its current Session call
    frame,       \* per thread: arguments and locals of its current call
    ret,         \* per thread: what its last call returned
    view,        \* per thread: the fields it last read through the pointer Get returned
    nsHistory,   \* receiver of a stand-alone Sparkline call: its SignalHistory
    sparkOut,    \* result of that Sparkline call
    snap,        \* history: per thread, *ptr as it was when Get returned ptr
    pre,         \* history: per thread, the tracked BSSIDs when its Update took the lock
    sent,        \* history: per thread, the BSSIDs it has passed to Update
    done,        \* history: the BSSIDs of the batches of the Updates that returned
    newCount,    \* history: per BSSID, how often an Update returned it
    submitted,   \* history: per BSSID, the signals of the returned Updates, in order
    overlap,     \* history: an Update was started while another was in progress
    budget,      \* number of samples handed to Update so far
    output,      \* parseScanOutput: the text it is given
    unsorted,    \* parseScanOutput: its slice networks when the loop ends
    parseOut,    \* parseScanOutput: the slice it returns
    parseDone,   \* parseScanOutput has returned
    appNetworks,   \* App.networks: the rows of the table, in display order
    appNewBSSIDs,  \* App.newBSSIDs: BSSID -> the time it was reported new
    scanning,      \* App.scanning
    sortBy,        \* App.sortBy
    footer,        \* what the footer shows: its kind and the count of an alert
    table,         \* the data rows updateTable last drew: BSSID and NEW badge
    scansQueued,   \* doScan goroutines whose start callback has not run yet
    scansRunning,  \* doScan goroutines between their two callbacks
    scansLaunched, \* doScan goroutines started so far
    tableAt,       \* history: time.Now() of the last updateTable, ZeroTime if none
    reportedAt,    \* history: per BSSID, when Update reported it, ZeroTime if never
    restoreAt,     \* showNewNetworkAlert's goroutines: when each one's Sleep ends
    lastDone       \* history: the last successful scan, see NoScan

sessionVars == <<states, mu, clock>>
threadVars == <<pc, frame, ret, view>>
sparkVars == <<nsHistory, sparkOut>>
historyVars == <<snap, pre, sent, done, newCount, submitted, overlap, budget>>
parseVars == <<output, unsorted, parseOut, parseDone>>
appVars == <<appNetworks, appNewBSSIDs, scanning, sortBy, footer, table>>
scanVars == <<scansQueued, scansRunning, scansLaunched>>
uiVars == <<appVars, scanVars, tableAt, reportedAt, restoreAt, lastDone>>
vars == <<states, mu, clock, pc, frame, ret, view, nsHistory, sparkOut,
          snap, pre, sent, done, newCount, submitted, overlap, budget,
          output, unsorted, parseOut, parseDone,
          appNetworks, appNewBSSIDs, scanning, sortBy, footer, table,
          scansQueued, scansRunning, scansLaunched, tableAt, reportedAt,
          restoreAt, lastDone>>

NoState ==
    [BSSID |-> NilPtr, FirstSeen |-> ZeroTime, LastSeen |-> ZeroTime,
     SignalHistory |-> <<>>, MinSignal |-> 0, MaxSignal |-> 0]
NoFrame ==
    [networks |-> <<>>, bssid |-> NilPtr, i |-> 0, newBSSIDs |-> <<>>, now |-> ZeroTime]
NoRet == [op |-> "none", newBSSIDs |-> <<>>, state |-> NilPtr, count |-> 0]
Unrendered == <<0>>

BatchBSSIDs(networks) == {networks[k].BSSID : k \in 1..Len(networks)}

\* The signals a batch carries for one BSSID, in batch order.
RECURSIVE SignalsFor(_, _)
SignalsFor(networks, bssid) ==
    IF networks = <<>> THEN <<>>
    ELSE LET rest == SignalsFor(Tail(networks), bssid)
         IN IF Head(networks).BSSID = bssid
            THEN <<Head(networks).Signal>> \o rest ELSE rest

Occurrences(list, x) == Cardinality({k \in 1..Len(list) : list[k] = x})
Range(q) == {q[k] : k \in 1..Len(q)}

\* ui.New(s): no networks, an empty newBSSIDs map, sorted by signal; nothing
\* drawn and no scan started yet.
\* No successful scan yet. Of a successful scan: n, how many there have been
\* with it; new, how many addresses its Update reported; alert, whether its
\* callback called showNewNetworkAlert.
NoScan == [n |-> 0, new |-> 0, alert |-> FALSE]

DefaultFooter == [kind |-> "default", count |-> 0]
AppNew ==
    /\ appNetworks = <<>>
    /\ appNewBSSIDs = <<>>
    /\ scanning = FALSE
    /\ sortBy = "signal"
    /\ footer = DefaultFooter
    /\ table = <<>>
    /\ scansQueued = 0
    /\ scansRunning = 0
    /\ scansLaunched = 0
    /\ tableAt = ZeroTime
    /\ reportedAt = [b \in BSSIDs |-> ZeroTime]
    /\ restoreAt = <<>>
    /\ lastDone = NoScan

\* NewSession(): an empty map, an unlocked mutex; no call in progress.
Init ==
    /\ states = <<>>
    /\ mu = NoThread
    /\ clock = 1
    /\ pc = [t \in Threads |-> "idle"]
    /\ frame = [t \in Threads |-> NoFrame]
    /\ ret = [t \in Threads |-> NoRet]
    /\ view = [t \in Threads |-> NoState]
    /\ nsHistory = <<>>
    /\ sparkOut = Unrendered
    /\ snap = [t \in Threads |-> NoState]
    /\ pre = [t \in Threads |-> {}]
    /\ sent = [t \in Threads |-> {}]
    /\ done = {}
    /\ newCount = [b \in BSSIDs |-> 0]
    /\ submitted = [b \in BSSIDs |-> <<>>]
    /\ overlap = FALSE
    /\ budget = 0
    /\ output = <<>>
    /\ unsorted = <<>>
    /\ parseOut = <<>>
    /\ parseDone = FALSE
    /\ AppNew

\* ------------------------------------------- history kept beside the code
\* What a returned Update(networks) -> newBSSIDs adds to the history.
Returned(networks, newBSSIDs) ==
    /\ done' = done \cup BatchBSSIDs(networks)
    /\ newCount' = [b \in BSSIDs |-> newCount[b] + Occurrences(newBSSIDs, b)]
    /\ submitted' = [b \in BSSIDs |-> submitted[b] \o SignalsFor(networks, b)]

\* --------------------------------------------- concurrent callers (Spec)
UpdatePCs == {"UpdateLock", "UpdateLoop", "UpdateLastSeen", "UpdateMin",
              "UpdateMax", "UpdateAppend", "UpdateTrim"}
InUpdate(t) == pc[t] \in UpdatePCs

\* A thread starts s.Update(networks).
CallUpdate(t) ==
    /\ pc[t] = "idle"
    /\ \E networks \in BatchesWithin(MaxConcSamples - budget) :
          /\ frame' = [frame EXCEPT ![t] = [NoFrame EXCEPT !.networks = networks]]
          /\ sent' = [sent EXCEPT ![t] = @ \cup BatchBSSIDs(networks)]
          /\ budget' = budget + Len(networks)
    /\ pc' = [pc EXCEPT ![t] = "UpdateLock"]
    /\ ret' = [ret EXCEPT ![t] = NoRet]
    /\ view' = [view EXCEPT ![t] = NoState]
    /\ snap' = [snap EXCEPT ![t] = NoState]
    /\ overlap' = (overlap \/ \E u \in Threads \ {t} : InUpdate(u))
    /\ UNCHANGED <<sessionVars, sparkVars, parseVars, uiVars, pre, done, newCount, submitted>>

\* s.mu.Lock(); var newBSSIDs []string; now := time.Now()
UpdateLock(t) ==
    /\ pc[t] = "UpdateLock"
    /\ mu = NoThread
    /\ mu' = t
    /\ frame' = [frame EXCEPT ![t].now = clock, ![t].i = 1, ![t].newBSSIDs = <<>>]
    /\ pre' = [pre EXCEPT ![t] = DOMAIN states]
    /\ pc' = [pc EXCEPT ![t] = "UpdateLoop"]
    /\ UNCHANGED <<states, clock, ret, view, sparkVars, parseVars, uiVars, snap, sent, done,
                   newCount, submitted, overlap, budget>>

UpdateLookupPrepend(t) ==
    /\ pc[t] = "UpdateLoop"
    /\ frame[t].i <= Len(frame[t].networks)
    /\ LET net == frame[t].networks[frame[t].i]
       IN IF ~Exists(states, net.BSSID)
          THEN /\ states' = StoreNew(states, net, frame[t].now)
               /\ frame' = [frame EXCEPT ![t].newBSSIDs = <<net.BSSID>> \o @]
          ELSE UNCHANGED <<states, frame>>
    /\ pc' = [pc EXCEPT ![t] = "UpdateLastSeen"]
    /\ UNCHANGED <<mu, clock, ret, view, sparkVars, parseVars, uiVars, historyVars>>

\* for _, net := range networks: the lookup and the !exists branch.
UpdateLookup(t) ==
    /\ pc[t] = "UpdateLoop"
    /\ frame[t].i <= Len(frame[t].networks)
    /\ LET net == frame[t].networks[frame[t].i]
       IN IF ~Exists(states, net.BSSID)
          THEN /\ states' = StoreNew(states, net, frame[t].now)
               /\ frame' = [frame EXCEPT ![t].newBSSIDs = Append(@, net.BSSID)]
          ELSE UNCHANGED <<states, frame>>
    /\ pc' = [pc EXCEPT ![t] = "UpdateLastSeen"]
    /\ UNCHANGED <<mu, clock, ret, view, sparkVars, parseVars, uiVars, historyVars>>

\* state.LastSeen = now
UpdateLastSeen(t) ==
    /\ pc[t] = "UpdateLastSeen"
    /\ states' = SetLastSeen(states, frame[t].networks[frame[t].i], frame[t].now)
    /\ pc' = [pc EXCEPT ![t] = "UpdateMin"]
    /\ UNCHANGED <<mu, clock, frame, ret, view, sparkVars, parseVars, uiVars, historyVars>>

\* if net.Signal < state.MinSignal { ... }
UpdateMin(t) ==
    /\ pc[t] = "UpdateMin"
    /\ states' = TrackMin(states, frame[t].networks[frame[t].i])
    /\ pc' = [pc EXCEPT ![t] = "UpdateMax"]
    /\ UNCHANGED <<mu, clock, frame, ret, view, sparkVars, parseVars, uiVars, historyVars>>

\* if net.Signal > state.MaxSignal { ... }
UpdateMax(t) ==
    /\ pc[t] = "UpdateMax"
    /\ states' = TrackMax(states, frame[t].networks[frame[t].i])
    /\ pc' = [pc EXCEPT ![t] = "UpdateAppend"]
    /\ UNCHANGED <<mu, clock, frame, ret, view, sparkVars, parseVars, uiVars, historyVars>>

\* state.SignalHistory = append(state.SignalHistory, net.Signal)
UpdateAppend(t) ==
    /\ pc[t] = "UpdateAppend"
    /\ states' = AppendHistory(states, frame[t].networks[frame[t].i])
    /\ pc' = [pc EXCEPT ![t] = "UpdateTrim"]
    /\ UNCHANGED <<mu, clock, frame, ret, view, sparkVars, parseVars, uiVars, historyVars>>

\* The trim closes the iteration: on to the next network.
UpdateTrim(t) ==
    /\ pc[t] = "UpdateTrim"
    /\ states' = TrimHistory(states, frame[t].networks[frame[t].i])
    /\ frame' = [frame EXCEPT ![t].i = @ + 1]
    /\ pc' = [pc EXCEPT ![t] = "UpdateLoop"]
    /\ UNCHANGED <<mu, clock, ret, view, sparkVars, parseVars, uiVars, historyVars>>

\* return newBSSIDs, and the deferred s.mu.Unlock().
UpdateReturn(t) ==
    /\ pc[t] = "UpdateLoop"
    /\ frame[t].i > Len(frame[t].networks)
    /\ ret' = [ret EXCEPT ![t] = [NoRet EXCEPT !.op = "Update",
                                               !.newBSSIDs = frame[t].newBSSIDs]]
    /\ mu' = NoThread
    /\ pc' = [pc EXCEPT ![t] = "idle"]
    /\ Returned(frame[t].networks, frame[t].newBSSIDs)
    /\ frame' = [frame EXCEPT ![t] = NoFrame]
    /\ pre' = [pre EXCEPT ![t] = {}]
    /\ UNCHANGED <<states, clock, view, sparkVars, parseVars, uiVars, snap, sent, overlap, budget>>

\* A thread starts s.Get(bssid).
CallGet(t, bssid) ==
    /\ pc[t] = "idle"
    /\ pc' = [pc EXCEPT ![t] = "GetLock"]
    /\ frame' = [frame EXCEPT ![t] = [NoFrame EXCEPT !.bssid = bssid]]
    /\ ret' = [ret EXCEPT ![t] = NoRet]
    /\ view' = [view EXCEPT ![t] = NoState]
    /\ snap' = [snap EXCEPT ![t] = NoState]
    /\ UNCHANGED <<sessionVars, sparkVars, parseVars, uiVars, pre, sent, done, newCount, submitted,
                   overlap, budget>>

\* A thread starts s.Count().
CallCount(t) ==
    /\ pc[t] = "idle"
    /\ pc' = [pc EXCEPT ![t] = "CountLock"]
    /\ frame' = [frame EXCEPT ![t] = NoFrame]
    /\ ret' = [ret EXCEPT ![t] = NoRet]
    /\ view' = [view EXCEPT ![t] = NoState]
    /\ snap' = [snap EXCEPT ![t] = NoState]
    /\ UNCHANGED <<sessionVars, sparkVars, parseVars, uiVars, pre, sent, done, newCount, submitted,
                   overlap, budget>>

GetLockNoWait(t) ==
    /\ pc[t] = "GetLock"
    /\ mu' = t
    /\ pc' = [pc EXCEPT ![t] = "GetReturn"]
    /\ UNCHANGED <<states, clock, frame, ret, view, sparkVars, parseVars, uiVars, historyVars>>

\* s.mu.Lock() of Get.
GetLock(t) ==
    /\ pc[t] = "GetLock"
    /\ mu = NoThread
    /\ mu' = t
    /\ pc' = [pc EXCEPT ![t] = "GetReturn"]
    /\ UNCHANGED <<states, clock, frame, ret, view, sparkVars, parseVars, uiVars, historyVars>>

\* s.mu.Lock() of Count.
CountLock(t) ==
    /\ pc[t] = "CountLock"
    /\ mu = NoThread
    /\ mu' = t
    /\ pc' = [pc EXCEPT ![t] = "CountReturn"]
    /\ UNCHANGED <<states, clock, frame, ret, view, sparkVars, parseVars, uiVars, historyVars>>

\* A Get that stores an empty NetworkState for an address it does not find.
GetReturnStoring(t) ==
    /\ pc[t] = "GetReturn"
    /\ LET p == Get(states, frame[t].bssid)
       IN /\ ret' = [ret EXCEPT ![t] = [NoRet EXCEPT !.op = "Get", !.state = p]]
          /\ snap' = [snap EXCEPT ![t] = IF p \in DOMAIN states THEN states[p] ELSE NoState]
          /\ states' = IF p = NilPtr
                       THEN (frame[t].bssid :>
                                [BSSID |-> frame[t].bssid, FirstSeen |-> ZeroTime,
                                 LastSeen |-> ZeroTime, SignalHistory |-> <<>>,
                                 MinSignal |-> 0, MaxSignal |-> 0]) @@ states
                       ELSE states
    /\ mu' = NoThread
    /\ pc' = [pc EXCEPT ![t] = "idle"]
    /\ frame' = [frame EXCEPT ![t] = NoFrame]
    /\ UNCHANGED <<clock, view, sparkVars, parseVars, uiVars, pre, sent, done,
                   newCount, submitted, overlap, budget>>

\* return s.states[bssid], and the deferred Unlock.
GetReturn(t) ==
    /\ pc[t] = "GetReturn"
    /\ LET p == Get(states, frame[t].bssid)
       IN /\ ret' = [ret EXCEPT ![t] = [NoRet EXCEPT !.op = "Get", !.state = p]]
          /\ snap' = [snap EXCEPT ![t] = IF p \in DOMAIN states THEN states[p] ELSE NoState]
    /\ mu' = NoThread
    /\ pc' = [pc EXCEPT ![t] = "idle"]
    /\ frame' = [frame EXCEPT ![t] = NoFrame]
    /\ UNCHANGED <<states, clock, view, sparkVars, parseVars, uiVars, pre, sent, done,
                   newCount, submitted, overlap, budget>>

\* return len(s.states), and the deferred Unlock.
CountReturn(t) ==
    /\ pc[t] = "CountReturn"
    /\ ret' = [ret EXCEPT ![t] = [NoRet EXCEPT !.op = "Count", !.count = Count(states)]]
    /\ mu' = NoThread
    /\ pc' = [pc EXCEPT ![t] = "idle"]
    /\ frame' = [frame EXCEPT ![t] = NoFrame]
    /\ UNCHANGED <<states, clock, view, sparkVars, parseVars, uiVars, historyVars>>

\* The caller of Get reads the fields of the NetworkState it was handed
\* (state.Sparkline(), state.FirstSeen, ... in the table and the detail panel).
ReadState(t) ==
    /\ pc[t] = "idle"
    /\ ret[t].op = "Get"
    /\ ret[t].state # NilPtr
    /\ view[t] = NoState
    /\ view' = [view EXCEPT ![t] = states[ret[t].state]]
    /\ UNCHANGED <<sessionVars, pc, frame, ret, sparkVars, parseVars, uiVars, historyVars>>

Next ==
    \/ \E t \in Threads : CallUpdate(t)
    \/ \E t \in Threads : UpdateLock(t)
    \/ \E t \in Threads : UpdateLookup(t)
    \/ \E t \in Threads : UpdateLastSeen(t)
    \/ \E t \in Threads : UpdateMin(t)
    \/ \E t \in Threads : UpdateMax(t)
    \/ \E t \in Threads : UpdateAppend(t)
    \/ \E t \in Threads : UpdateTrim(t)
    \/ \E t \in Threads : UpdateReturn(t)
    \/ \E t \in Threads, bssid \in BSSIDs : CallGet(t, bssid)
    \/ \E t \in Threads : GetLock(t)
    \/ \E t \in Threads : GetReturn(t)
    \/ \E t \in Threads : CallCount(t)
    \/ \E t \in Threads : CountLock(t)
    \/ \E t \in Threads : CountReturn(t)
    \/ \E t \in Threads : ReadState(t)


Spec == Init /\ [][Next]_vars

\* ------------------------------------ one caller, one BSSID (SpecOne)
\* A whole s.Update(networks) by thread 1, nobody else calling.
SeqUpdate(networks) ==
    /\ \A t \in Threads : pc[t] = "idle"
    /\ mu = NoThread
    /\ LET r == Update(states, networks, clock)
       IN /\ states' = r.states
          /\ ret' = [ret EXCEPT ![1] = [NoRet EXCEPT !.op = "Update",
                                                     !.newBSSIDs = r.newBSSIDs]]
          /\ Returned(networks, r.newBSSIDs)
    /\ view' = [view EXCEPT ![1] = NoState]
    /\ snap' = [snap EXCEPT ![1] = NoState]
    /\ sent' = [sent EXCEPT ![1] = @ \cup BatchBSSIDs(networks)]
    /\ budget' = budget + Len(networks)
    /\ UNCHANGED <<mu, clock, pc, frame, sparkVars, parseVars, uiVars, pre, overlap>>

\* A whole s.Get(bssid) by thread 1.
SeqGet(bssid) ==
    /\ \A t \in Threads : pc[t] = "idle"
    /\ mu = NoThread
    /\ LET p == Get(states, bssid)
       IN /\ ret' = [ret EXCEPT ![1] = [NoRet EXCEPT !.op = "Get", !.state = p]]
          /\ snap' = [snap EXCEPT ![1] = IF p \in DOMAIN states THEN states[p] ELSE NoState]
    /\ view' = [view EXCEPT ![1] = NoState]
    /\ UNCHANGED <<sessionVars, pc, frame, sparkVars, parseVars, uiVars, pre, sent, done, newCount,
                   submitted, overlap, budget>>

OneUpdate == \E networks \in OneBatchesWithin(MaxSamples - budget) : SeqUpdate(networks)

OneGet == SeqGet(1)

OneNext ==
    \/ OneUpdate
    \/ OneGet
    \/ ReadState(1)

SpecOne == Init /\ [][OneNext]_vars

\* --------------------------------------- Sparkline alone (SpecSpark)
SparkInputs ==
    SeqsUpTo(SparkSamples, 1) \cup SeqsUpTo(CoarseSamples, MaxSparkLen)

SparkInit ==
    /\ Init!1 /\ Init!2 /\ Init!3 /\ Init!4 /\ Init!5 /\ Init!6 /\ Init!7
    /\ nsHistory \in SparkInputs
    /\ sparkOut = Unrendered
    /\ snap = [t \in Threads |-> NoState]
    /\ pre = [t \in Threads |-> {}]
    /\ sent = [t \in Threads |-> {}]
    /\ done = {}
    /\ newCount = [b \in BSSIDs |-> 0]
    /\ submitted = [b \in BSSIDs |-> <<>>]
    /\ overlap = FALSE
    /\ budget = 0
    /\ output = <<>>
    /\ unsorted = <<>>
    /\ parseOut = <<>>
    /\ parseDone = FALSE
    /\ AppNew

\* spark := ns.Sparkline()
CallSparkline ==
    /\ sparkOut = Unrendered
    /\ sparkOut' = Sparkline(nsHistory)
    /\ UNCHANGED <<sessionVars, threadVars, nsHistory, historyVars, parseVars, uiVars>>

SparkNext == CallSparkline

SpecSpark == SparkInit /\ [][SparkNext]_vars


\* ===================================================== the scan parser
\* Text is a sequence of lines and a line a sequence of tokens.  A token is a
\* string: one character where the code looks at characters (the address,
\* digits, the sign, white space) and one word where it looks for a word.
\* The lines of a text are joined by "\n" (Flat).
MarkerTok == "BSS "
NL == "\n"
HexLower == {"a", "b", "c", "d", "e", "f"}
HexUpper == {"A", "B", "C", "D", "E", "F"}
Digits == {"0", "1", "2", "3", "4", "5", "6", "7", "8", "9"}
HexOrColon == Digits \cup HexLower \cup HexUpper \cup {":"}
Blanks == {" ", "\t"}
Spaces == Blanks \cup {NL}
Hidden == <<"<hidden>">>

\* strconv.Atoi of a run of digits.
DigitVal ==
    ("0" :> 0) @@ ("1" :> 1) @@ ("2" :> 2) @@ ("3" :> 3) @@ ("4" :> 4) @@
    ("5" :> 5) @@ ("6" :> 6) @@ ("7" :> 7) @@ ("8" :> 8) @@ ("9" :> 9)

RECURSIVE AtoiFrom(_, _)
AtoiFrom(ds, acc) ==
    IF ds = <<>> THEN acc ELSE AtoiFrom(Tail(ds), acc * 10 + DigitVal[Head(ds)])

Atoi(s) ==
    IF s # <<>> /\ Head(s) = "-" THEN 0 - AtoiFrom(Tail(s), 0) ELSE AtoiFrom(s, 0)

\* strings.ToUpper
UpperOf ==
    ("a" :> "A") @@ ("b" :> "B") @@ ("c" :> "C") @@ ("d" :> "D") @@
    ("e" :> "E") @@ ("f" :> "F")
ToUpper(s) == [k \in 1..Len(s) |-> IF s[k] \in DOMAIN UpperOf THEN UpperOf[s[k]] ELSE s[k]]

\* The text of a block: its lines, each ended by a newline.
RECURSIVE Flat(_)
Flat(lines) ==
    IF lines = <<>> THEN <<>> ELSE Head(lines) \o <<NL>> \o Flat(Tail(lines))

\* regexp (?m)^BSS  : a line that starts with the marker.
IsMarkerLine(line) == line # <<>> /\ Head(line) = MarkerTok

\* regexp.Split(output, -1) on the marker, on the lines of the text: the
\* first fragment is what precedes the first marker (empty when the text
\* starts with one); a marker line gives the rest of itself to its block,
\* which runs up to the next marker line.
MarkerLines(lines) == {k \in 1..Len(lines) : IsMarkerLine(lines[k])}
NthMarker(lines, n) ==
    CHOOSE k \in MarkerLines(lines) :
        Cardinality({m \in MarkerLines(lines) : m <= k}) = n
Split(lines) ==
    LET count == Cardinality(MarkerLines(lines))
        from(j) == IF j = 0 THEN 0 ELSE NthMarker(lines, j)
        upto(j) == IF j = count THEN Len(lines) ELSE NthMarker(lines, j + 1) - 1
    IN [f \in 1..(count + 1) |->
          (IF f = 1 THEN <<>> ELSE <<Tail(lines[from(f - 1)])>>)
          \o SubSeq(lines, from(f - 1) + 1, upto(f - 1))]

\* strings.TrimSpace(block) == ""
IsBlank(s) == \A k \in 1..Len(s) : s[k] \in Spaces

\* The first position from p on whose token is outside S (Len(s) + 1 if none).
RECURSIVE SkipWhile(_, _, _)
SkipWhile(s, p, S) ==
    IF p > Len(s) \/ s[p] \notin S THEN p ELSE SkipWhile(s, p + 1, S)

Slice(s, from, to) == [k \in 1..(to - from) |-> s[from + k - 1]]

\* strings.TrimSpace of a capture that holds no newline.
RECURSIVE TrimLeft(_)
TrimLeft(s) == IF s # <<>> /\ Head(s) \in Spaces THEN TrimLeft(Tail(s)) ELSE s
RECURSIVE TrimRight(_)
TrimRight(s) ==
    IF s # <<>> /\ s[Len(s)] \in Spaces THEN TrimRight(SubSeq(s, 1, Len(s) - 1)) ELSE s
TrimSpace(s) == TrimRight(TrimLeft(s))

\* ^([0-9a-fA-F:]{17}) : the submatch, <<>> when the block does not match.
MatchBSSID(s) ==
    IF Len(s) >= 17 /\ \A k \in 1..17 : s[k] \in HexOrColon
    THEN Slice(s, 1, 18) ELSE <<>>

\* (?m)^[ \t]+SSID:[ \t]*(.*)$ : leftmost match; the capture, or the
\* no-match mark.
NoMatch == <<"<nomatch>">>
SSIDStarts(s) ==
    {p \in 1..Len(s) :
        /\ p = 1 \/ s[p - 1] = NL
        /\ s[p] \in Blanks
        /\ LET q == SkipWhile(s, p, Blanks) IN q <= Len(s) /\ s[q] = "SSID:"}

MatchSSIDAcrossLines(s) ==
    IF SSIDStarts(s) = {} THEN NoMatch
    ELSE LET p == CHOOSE x \in SSIDStarts(s) : \A y \in SSIDStarts(s) : x <= y
             q == SkipWhile(s, p, Blanks)
             v == SkipWhile(s, q + 1, Blanks)
         IN Slice(s, v, Len(s) + 1)

MatchSSID(s) ==
    IF SSIDStarts(s) = {} THEN NoMatch
    ELSE LET p == CHOOSE x \in SSIDStarts(s) : \A y \in SSIDStarts(s) : x <= y
             q == SkipWhile(s, p, Blanks)
             v == SkipWhile(s, q + 1, Blanks)
             e == SkipWhile(s, v, {s[k] : k \in 1..Len(s)} \ {NL})
         IN Slice(s, v, e)

\* label\s*(-?\d+) and label(\d+) : leftmost match of a label followed, after
\* the white space `gap` allows, by an optional sign (when `signed`) and digits.
NumberStarts(s, label, gap, signed) ==
    {p \in 1..Len(s) :
        /\ s[p] = label
        /\ LET q == SkipWhile(s, p + 1, gap)
               d == IF signed /\ q <= Len(s) /\ s[q] = "-" THEN q + 1 ELSE q
           IN d <= Len(s) /\ s[d] \in Digits}

MatchNumber(s, label, gap, signed) ==
    IF NumberStarts(s, label, gap, signed) = {} THEN NoMatch
    ELSE LET S == NumberStarts(s, label, gap, signed)
             p == CHOOSE x \in S : \A y \in S : x <= y
             q == SkipWhile(s, p + 1, gap)
             d == IF signed /\ q <= Len(s) /\ s[q] = "-" THEN q + 1 ELSE q
         IN Slice(s, q, SkipWhile(s, d, Digits))

\* strings.Contains(block, marker)
Contains(s, marker) == \E k \in 1..Len(s) : s[k] = marker

parseSecurityRSNFirst(s) ==
    IF Contains(s, "SAE") THEN "WPA3"
    ELSE IF Contains(s, "RSN:") THEN "WPA2"
    ELSE IF Contains(s, "RSN:") /\ Contains(s, "WPA:") THEN "WPA2/WPA"
    ELSE IF Contains(s, "WPA:") THEN "WPA"
    ELSE IF Contains(s, "Privacy") THEN "WEP"
    ELSE "OPEN"

parseSecurity(s) ==
    LET hasRSN == Contains(s, "RSN:")
        hasWPA == Contains(s, "WPA:")
        hasSAE == Contains(s, "SAE")
    IN IF hasSAE THEN "WPA3"
       ELSE IF hasRSN /\ hasWPA THEN "WPA2/WPA"
       ELSE IF hasRSN THEN "WPA2"
       ELSE IF hasWPA THEN "WPA"
       ELSE IF Contains(s, "Privacy") THEN "WEP"
       ELSE "OPEN"

freqToChannelOpenRange(freq) ==
    IF freq > 2412 /\ freq < 2472 THEN GoDiv(freq - 2407, 5)
    ELSE IF freq = 2484 THEN 14
    ELSE IF freq > 5180 /\ freq < 5825 THEN GoDiv(freq - 5000, 5)
    ELSE IF freq > 5955 /\ freq < 7115 THEN GoDiv(freq - 5950, 5)
    ELSE 0

freqToChannel(freq) ==
    IF freq >= 2412 /\ freq <= 2472 THEN GoDiv(freq - 2407, 5)
    ELSE IF freq = 2484 THEN 14
    ELSE IF freq >= 5180 /\ freq <= 5825 THEN GoDiv(freq - 5000, 5)
    ELSE IF freq >= 5955 /\ freq <= 7115 THEN GoDiv(freq - 5950, 5)
    ELSE 0

\* The body of the loop of parseScanOutput for one block that passed the
\* address match: the Network it appends.
ParseBlock(s, t) ==
    LET ssid == IF MatchSSID(s) = NoMatch THEN <<>> ELSE TrimSpace(MatchSSID(s))
        sig == MatchNumber(s, "signal:", Spaces, TRUE)
        frq == MatchNumber(s, "freq:", Spaces, FALSE)
        ds == MatchNumber(s, "DS Parameter set: channel ", {}, FALSE)
        Frequency == IF frq = NoMatch THEN 0 ELSE Atoi(frq)
    IN [BSSID |-> ToUpper(MatchBSSID(s)),
        SSID |-> IF ssid = <<>> THEN Hidden ELSE ssid,
        Signal |-> IF sig = NoMatch THEN 0 ELSE Atoi(sig),
        Frequency |-> Frequency,
        Channel |-> IF ds # NoMatch THEN Atoi(ds) ELSE freqToChannel(Frequency),
        Security |-> parseSecurity(s),
        LastSeen |-> t]

\* Whether the loop appends a Network for this block (neither `continue`).
Accepted(s) == ~IsBlank(s) /\ MatchBSSID(s) # <<>>

\* The loop of parseScanOutput: the slice before it is sorted.
ParseBlocks(blocks, t) ==
    LET kept == SelectSeq(blocks, LAMBDA b : Accepted(Flat(b)))
    IN [j \in 1..Len(kept) |-> ParseBlock(Flat(kept[j]), t)]

\* sort.Slice(networks, func(i, j) { return networks[i].Signal > networks[j].Signal }).
\* The library sorts a slice of up to 12 elements by insertion: each element
\* moves left past the elements it is less than (here: weaker than).
RECURSIVE InsertLeft(_, _)
InsertLeft(sorted, r) ==
    IF sorted # <<>> /\ r.Signal > sorted[Len(sorted)].Signal
    THEN InsertLeft(SubSeq(sorted, 1, Len(sorted) - 1), r) \o <<sorted[Len(sorted)]>>
    ELSE sorted \o <<r>>
RECURSIVE insertionSort(_, _)
insertionSort(recs, acc) ==
    IF recs = <<>> THEN acc ELSE insertionSort(Tail(recs), InsertLeft(acc, Head(recs)))

\* The slice with every element after the elements that are less than it
\* (stronger) and after the equal ones that stood before it in recs
\* (tiesInOrder), or after the equal ones that stood behind it.
Arranged(recs, tiesInOrder) ==
    LET n == Len(recs)
        first(j, i) == IF tiesInOrder THEN j < i ELSE j > i
        rank(i) ==
            1 + Cardinality({j \in 1..n :
                    \/ recs[j].Signal > recs[i].Signal
                    \/ recs[j].Signal = recs[i].Signal /\ first(j, i)})
    IN [p \in 1..n |-> recs[CHOOSE i \in 1..n : rank(i) = p]]

sortSliceAscending(recs) ==
    {[k \in 1..Len(recs) |-> Arranged(recs, TRUE)[Len(recs) + 1 - k]]}

\* A longer slice it sorts by partitioning (reversing a slice it finds in
\* reverse order first) and promises no order among elements neither of
\* which is less than the other: they come out in their order or reversed.
sortSlice(recs) ==
    IF Len(recs) <= 12 THEN {insertionSort(recs, <<>>)}
    ELSE {Arranged(recs, TRUE), Arranged(recs, FALSE)}

\* ------------------------------------------------- the texts parsed
AddrLower == <<"a", "a", ":", "b", "b", ":", "c", "c", ":", "d", "d", ":", "e", "e", ":", "0", "1">>
AddrUpper == <<"A", "A", ":", "B", "B", ":", "C", "C", ":", "D", "D", ":", "E", "E", ":", "0", "2">>
AddrMixed == <<"0", "0", ":", "1", "1", ":", "2", "2", ":", "3", "3", ":", "4", "f", ":", "F", "5">>
HexRun == <<"a", "a", "b", "b", "c", "c", "d", "d", "e", "e", "f", "f", "0", "0", "1", "1", "2">>
AddrBadEnd == <<"a", "a", ":", "b", "b", ":", "c", "c", ":", "d", "d", ":", "e", "e", ":", "0", "g">>
SubHeader == <<"L", "o", "a", "d", ":">>

MarkerLine(head) == <<MarkerTok>> \o head \o <<"(on wlan0)">>
SSIDLine == <<"\t", "SSID:", " ", "home", " ">>
SSIDBlankLine == <<"\t", "SSID:", " ", " ">>
SSIDBareLine == <<"SSID:", " ", "home">>
SSIDLabelLine == <<"\t", "SSID:", " ", "signal:", " ", "7">>
SignalLine == <<"\t", "signal:", " ", "-", "5", "0", ".", "0", "0", " ", "dBm">>
StrongSignalLine == <<"\t", "signal:", " ", "-", "3", "0", ".", "0", "0", " ", "dBm">>
WeakSignalLine == <<"\t", "signal:", " ", "-", "7", "0", ".", "0", "0", " ", "dBm">>
FreqLine == <<"\t", "freq:", " ", "2", "4", "3", "7">>
DSLine == <<"\t", "DS Parameter set: channel ", "1", "1">>
RSNLine == <<"\t", "RSN:", "\t", " ", "*", " ", "Version:", " ", "1">>
WPALine == <<"\t", "WPA:", "\t", " ", "*", " ", "Version:", " ", "1">>
SAELine == <<"\t", "\t", " ", "*", " ", "Authentication suites:", " ", "SAE">>
CapLine == <<"\t", "capability:", " ", "ESS", " ", "Privacy">>
LoadLine == <<"\t", "BSS ", "Load:">>
ErrLine == <<"command failed: Device or resource busy (-16)">>

\* Texts of several blocks: what precedes the first marker, then the blocks.
Preambles == {<<>>, <<ErrLine>>}
SimpleBlocks ==
    {<<MarkerLine(AddrLower), SignalLine>>,
     <<MarkerLine(AddrUpper), SignalLine>>,
     <<MarkerLine(AddrMixed), WeakSignalLine>>,
     <<MarkerLine(HexRun), WeakSignalLine>>,
     <<MarkerLine(SubHeader)>>}

RECURSIVE Concat(_)
Concat(qs) == IF qs = <<>> THEN <<>> ELSE Head(qs) \o Concat(Tail(qs))

ManyBlockTexts ==
    {lead \o Concat(bs) : lead \in Preambles, bs \in SeqsUpTo(SimpleBlocks, MaxBlocks)}

\* Texts whose first fragment starts like a block: an address and a signal.
LeadingAddressTexts ==
    {<<AddrMixed \o <<" ">>, StrongSignalLine>> \o Concat(bs) :
        bs \in SeqsUpTo(SimpleBlocks, 1)}

\* A long text: blocks from the weakest signal to the strongest, the first
\* two equally weak (-99, -99, -98, -97, ...).
DigitChar == <<"0", "1", "2", "3", "4", "5", "6", "7", "8", "9">>
SignalLineOf(n) ==
    <<"\t", "signal:", " ", "-", DigitChar[(n \div 10) + 1], DigitChar[(n % 10) + 1],
      ".", "0", "0", " ", "dBm">>
LongText ==
    [k \in 1..(2 * LongTextBlocks) |->
        IF k = 1 THEN MarkerLine(AddrLower)
        ELSE IF k = 3 THEN MarkerLine(AddrUpper)
        ELSE IF k % 2 = 1 THEN MarkerLine(AddrMixed)
        ELSE IF k <= 4 THEN SignalLineOf(99)
        ELSE SignalLineOf(99 - ((k \div 2) - 2))]

\* Texts of one block with any of the optional lines, in any order.
BodyLines ==
    {SSIDLine, SSIDBlankLine, SSIDBareLine, SSIDLabelLine, SignalLine, FreqLine,
     DSLine, RSNLine, CapLine, LoadLine}
OneBlockTexts ==
    {<<MarkerLine(head)>> \o body :
        head \in {AddrLower, AddrBadEnd}, body \in SeqsUpTo(BodyLines, MaxLines)}

\* Texts of one block with each combination of the security markers.
SecurityLines == <<CapLine, WPALine, RSNLine, SAELine>>
RECURSIVE SelectLines(_, _)
SelectLines(lines, keep) ==
    IF lines = <<>> THEN <<>>
    ELSE (IF Head(keep) THEN <<Head(lines)>> ELSE <<>>)
         \o SelectLines(Tail(lines), Tail(keep))
SecurityTexts ==
    {<<MarkerLine(AddrUpper)>> \o SelectLines(SecurityLines, keep) :
        keep \in [1..Len(SecurityLines) -> BOOLEAN]}

\* Texts of one block with one frequency, with and without a channel marker.
FreqSamples ==
    {<<"0">>, <<"2", "4", "1", "1">>, <<"2", "4", "1", "2">>, <<"2", "4", "1", "6">>,
     <<"2", "4", "3", "7">>, <<"2", "4", "7", "2">>, <<"2", "4", "7", "3">>,
     <<"2", "4", "8", "4">>, <<"5", "1", "7", "9">>, <<"5", "1", "8", "0">>,
     <<"5", "5", "0", "0">>, <<"5", "8", "2", "5">>, <<"5", "8", "2", "6">>,
     <<"5", "9", "5", "5">>, <<"5", "9", "5", "9">>, <<"7", "1", "1", "5">>,
     <<"7", "1", "1", "6">>, <<"9", "9", "9", "9">>}
FreqTexts ==
    {<<MarkerLine(AddrLower), <<"\t", "freq:", " ">> \o f>> \o tail :
        f \in FreqSamples, tail \in {<<>>, <<DSLine>>}}

ParseInputs ==
    ManyBlockTexts \cup LeadingAddressTexts \cup OneBlockTexts \cup SecurityTexts
    \cup FreqTexts \cup {LongText}

\* ------------------------------------ parseScanOutput alone (SpecParse)
ParseInit ==
    /\ Init!1 /\ Init!2 /\ Init!3 /\ Init!4 /\ Init!5 /\ Init!6 /\ Init!7
    /\ Init!8 /\ Init!9 /\ Init!10 /\ Init!11 /\ Init!12 /\ Init!13 /\ Init!14
    /\ Init!15 /\ Init!16 /\ Init!17
    /\ output \in ParseInputs
    /\ unsorted = <<>>
    /\ parseOut = <<>>
    /\ parseDone = FALSE
    /\ AppNew

\* networks := parseScanOutput(string(out))
CallParseScanOutput ==
    /\ ~parseDone
    /\ unsorted' = ParseBlocks(Split(output), clock)
    /\ parseOut' \in sortSlice(unsorted')
    /\ parseDone' = TRUE
    /\ UNCHANGED <<sessionVars, threadVars, sparkVars, historyVars, output, uiVars>>

ParseNext == CallParseScanOutput

SpecParse == ParseInit /\ [][ParseNext]_vars

\* ============================================ the table and the scans
\* What Scan() may return: each address at most once, at one signal.
SetToSeq(S) ==
    [k \in 1..Cardinality(S) |-> CHOOSE b \in S : Cardinality({c \in S : c <= b}) = k]
ScanResults ==
    {[k \in 1..Cardinality(S) |-> [BSSID |-> SetToSeq(S)[k], Signal |-> 0 - 40]] :
        S \in {T \in SUBSET BSSIDs : Cardinality(T) <= MaxBatch}}

\* The instants at which the model looks at the clock.
Instants == {t \in 1..MaxClock : t \in {1, 2, 30, 31} \/ t = MaxClock}

\* updateTable: isNew of one row.
RowIsNewInclusive(marks, bssid, now) ==
    bssid \in DOMAIN marks /\ now - marks[bssid] <= newBadgeTTL

RowIsNew(marks, bssid, now) ==
    bssid \in DOMAIN marks /\ now - marks[bssid] < newBadgeTTL

\* updateTable: the rows it draws, one per network of a.networks.
updateTable(nets, marks, now) ==
    [k \in 1..Len(nets) |->
        [BSSID |-> nets[k].BSSID, isNew |-> RowIsNew(marks, nets[k].BSSID, now)]]

\* doScan: a.newBSSIDs[bssid] = now for the new ones, then the expired
\* entries deleted.
MarkNew(marks, news, now) ==
    [b \in DOMAIN marks \cup Range(news) |-> IF b \in Range(news) THEN now ELSE marks[b]]
CleanExpired(marks, now) ==
    [b \in {c \in DOMAIN marks : ~(now - marks[c] >= newBadgeTTL)} |-> marks[b]]

\* sort.Slice(a.networks, ...) on a key the rows here do not carry: any order.
Reorderings(q) ==
    {[k \in 1..Len(q) |-> q[f[k]]] :
        f \in {g \in [1..Len(q) -> 1..Len(q)] : \A i, j \in 1..Len(q) : g[i] = g[j] => i = j}}

\* Time passes.
Tick ==
    /\ \E t \in Instants : t > clock /\ clock' = t
    /\ UNCHANGED <<states, mu, threadVars, sparkVars, historyVars, parseVars, uiVars>>

\* go a.doScan(): the initial scan, the 'r' key or the refresh ticker.
GoDoScan ==
    /\ scansLaunched < MaxScans
    /\ scansLaunched' = scansLaunched + 1
    /\ scansQueued' = scansQueued + 1
    /\ UNCHANGED <<sessionVars, threadVars, sparkVars, historyVars, parseVars,
                   appVars, scansRunning, tableAt, reportedAt, restoreAt, lastDone>>

\* The first callback of doScan runs on the event loop.
ScanStartCallback ==
    /\ scansQueued > 0
    /\ scansQueued' = scansQueued - 1
    /\ scansRunning' = scansRunning + 1
    /\ scanning' = TRUE
    /\ UNCHANGED <<sessionVars, threadVars, sparkVars, historyVars, parseVars,
                   appNetworks, appNewBSSIDs, sortBy, footer, table,
                   scansLaunched, tableAt, reportedAt,
                   restoreAt, lastDone>>

\* The second callback of doScan, after Scan() failed.
ScanErrorCallback ==
    /\ scansRunning > 0
    /\ scansRunning' = scansRunning - 1
    /\ scanning' = FALSE
    /\ footer' = [kind |-> "error", count |-> 0]
    /\ UNCHANGED <<sessionVars, threadVars, sparkVars, historyVars, parseVars,
                   appNetworks, appNewBSSIDs, sortBy, table,
                   scansQueued, scansLaunched, tableAt, reportedAt,
                   restoreAt, lastDone>>

\* doScan: the condition under which it calls showNewNetworkAlert, count
\* being a.session.Count() after the Update.
AlertShown(news, count) == Len(news) > 0 /\ count > Len(news)

\* The second callback of doScan, after Scan() returned networks.
ScanDoneCallback ==
    /\ scansRunning > 0
    /\ mu = NoThread
    /\ \E nets \in ScanResults :
          LET r == Update(states, nets, clock)
              now == clock
              marks == CleanExpired(MarkNew(appNewBSSIDs, r.newBSSIDs, now), now)
          IN /\ states' = r.states
             /\ appNetworks' = nets
             /\ appNewBSSIDs' = marks
             /\ table' = updateTable(nets, marks, now)
             /\ tableAt' = now
             /\ footer' = IF AlertShown(r.newBSSIDs, Count(r.states))
                          THEN [kind |-> "alert", count |-> Len(r.newBSSIDs)]
                          ELSE footer
             /\ restoreAt' = IF AlertShown(r.newBSSIDs, Count(r.states))
                             THEN Append(restoreAt, now + alertSleep)
                             ELSE restoreAt
             /\ lastDone' = [n |-> lastDone.n + 1, new |-> Len(r.newBSSIDs),
                             alert |-> AlertShown(r.newBSSIDs, Count(r.states))]
             /\ reportedAt' = [b \in BSSIDs |->
                                  IF b \in Range(r.newBSSIDs) THEN now ELSE reportedAt[b]]
    /\ scansRunning' = scansRunning - 1
    /\ scanning' = FALSE
    /\ UNCHANGED <<mu, clock, threadVars, sparkVars, historyVars, parseVars,
                   sortBy, scansQueued, scansLaunched>>

\* The 's' key: cycleSortOrder sorts a.networks by the next key and redraws.
CycleSortOrder ==
    /\ sortBy' = CASE sortBy = "signal" -> "ssid"
                   [] sortBy = "ssid" -> "channel"
                   [] sortBy = "channel" -> "security"
                   [] OTHER -> "signal"
    /\ appNetworks' \in (IF sortBy' = "signal" THEN sortSlice(appNetworks)
                         ELSE Reorderings(appNetworks))
    /\ table' = updateTable(appNetworks', appNewBSSIDs, clock)
    /\ tableAt' = clock
    /\ UNCHANGED <<sessionVars, threadVars, sparkVars, historyVars, parseVars,
                   appNewBSSIDs, scanning, footer, scanVars, reportedAt,
                   restoreAt, lastDone>>

\* The callback a goroutine of showNewNetworkAlert queues when its Sleep is
\* over: setDefaultFooter, whatever the footer shows by then.
RestoreFooter ==
    /\ restoreAt # <<>>
    /\ Head(restoreAt) <= clock
    /\ footer' = DefaultFooter
    /\ restoreAt' = Tail(restoreAt)
    /\ UNCHANGED <<sessionVars, threadVars, sparkVars, historyVars, parseVars,
                   appNetworks, appNewBSSIDs, scanning, sortBy, table,
                   scanVars, tableAt, reportedAt, lastDone>>

UINext ==
    \/ Tick
    \/ GoDoScan
    \/ ScanStartCallback
    \/ ScanErrorCallback
    \/ ScanDoneCallback
    \/ CycleSortOrder
    \/ RestoreFooter

SpecUI == Init /\ [][UINext]_vars

\* ------------------------- concurrent Updates as time passes (SpecTime)
\* A thread starts s.Update(networks), every batch about the one address.
CallUpdateSame(t) ==
    /\ pc[t] = "idle"
    /\ \E networks \in OneBatchesWithin(MaxConcSamples - budget) :
          /\ frame' = [frame EXCEPT ![t] = [NoFrame EXCEPT !.networks = networks]]
          /\ sent' = [sent EXCEPT ![t] = @ \cup BatchBSSIDs(networks)]
          /\ budget' = budget + Len(networks)
    /\ pc' = [pc EXCEPT ![t] = "UpdateLock"]
    /\ ret' = [ret EXCEPT ![t] = NoRet]
    /\ view' = [view EXCEPT ![t] = NoState]
    /\ snap' = [snap EXCEPT ![t] = NoState]
    /\ overlap' = (overlap \/ \E u \in Threads \ {t} : InUpdate(u))
    /\ UNCHANGED <<sessionVars, sparkVars, parseVars, uiVars, pre, done, newCount,
                   submitted>>

TimeNext ==
    \/ Tick
    \/ \E t \in Threads : CallUpdateSame(t)
    \/ \E t \in Threads : UpdateLock(t)
    \/ \E t \in Threads : UpdateLookup(t)
    \/ \E t \in Threads : UpdateLastSeen(t)
    \/ \E t \in Threads : UpdateMin(t)
    \/ \E t \in Threads : UpdateMax(t)
    \/ \E t \in Threads : UpdateAppend(t)
    \/ \E t \in Threads : UpdateTrim(t)
    \/ \E t \in Threads : UpdateReturn(t)

SpecTime == Init /\ [][TimeNext]_vars

\* ============================================================== properties
SeqMin(q) == CHOOSE x \in Range(q) : \A y \in Range(q) : x <= y
SeqMax(q) == CHOOSE x \in Range(q) : \A y \in Range(q) : x >= y

\* The last n elements of q (all of q when it is shorter), in order.
LastN(q, n) ==
    LET m == IF Len(q) < n THEN Len(q) ELSE n
    IN [k \in 1..m |-> q[Len(q) - m + k]]

\* The BSSIDs of a batch that are not in `tracked`, each once, ordered by
\* the position of its first occurrence in the batch.
FirstAppearances(networks, tracked) ==
    LET idx == {k \in 1..Len(networks) :
                   /\ networks[k].BSSID \notin tracked
                   /\ \A j \in 1..(k - 1) : networks[j].BSSID # networks[k].BSSID}
        at(r) == CHOOSE k \in idx : Cardinality({j \in idx : j < k}) = r - 1
    IN [r \in 1..Cardinality(idx) |-> networks[at(r)].BSSID]

\* Between Lock and Unlock.
InCS(t) == pc[t] \in {"UpdateLoop", "UpdateLastSeen", "UpdateMin", "UpdateMax",
                      "UpdateAppend", "UpdateTrim", "GetReturn", "CountReturn"}
UpdateInCS(t) == InUpdate(t) /\ InCS(t)
Quiescent == \A t \in Threads : pc[t] = "idle"

\* The map holds the returned Updates, each applied whole, and nothing else.
Applied ==
    /\ DOMAIN states = done
    /\ \A b \in done :
          /\ states[b].BSSID = b
          /\ states[b].SignalHistory = LastN(submitted[b], maxHistory)
          /\ states[b].MinSignal = SeqMin(submitted[b])
          /\ states[b].MaxSignal = SeqMax(submitted[b])
          /\ states[b].LastSeen # ZeroTime

\* C1: every Update returns exactly the BSSIDs of its batch that were not
\* tracked when the call took the lock, each once, in the order of their first
\* appearance in the batch; so a BSSID is returned by the first Update that
\* carries it and by no later one.
C1_UpdateReturnsNewlyTracked ==
    [][\A t \in Threads :
          (pc[t] = "UpdateLoop" /\ pc'[t] = "idle")
              => ret'[t].newBSSIDs = FirstAppearances(frame[t].networks, pre[t])]_vars

\* One thread's Update returned a BSSID; the other's Update of an already
\* tracked BSSID returned the empty list.
C1_Witness ==
    \E t \in Threads, u \in Threads :
        /\ t # u
        /\ ret[t].op = "Update" /\ ret[t].newBSSIDs # <<>>
        /\ ret[u].op = "Update" /\ ret[u].newBSSIDs = <<>>
        /\ sent[u] # {} /\ sent[u] \subseteq sent[t]
        /\ budget = 2

\* C2: the SignalHistory of every tracked BSSID holds at most maxHistory
\* values and is the last min(n, maxHistory) signals submitted for it, in
\* arrival order; the caller of Get reads the same through the pointer.
C2_HistoryWindow ==
    /\ \A b \in DOMAIN states :
          /\ Len(states[b].SignalHistory) <= maxHistory
          /\ states[b].SignalHistory = LastN(submitted[b], maxHistory)
    /\ view[1] # NoState
          => view[1].SignalHistory = LastN(submitted[view[1].BSSID], maxHistory)

\* More than maxHistory samples were submitted and Get's caller reads a full
\* window whose oldest retained value differs from the first one submitted.
C2_Witness ==
    /\ view[1] # NoState
    /\ Len(submitted[1]) > maxHistory
    /\ Len(view[1].SignalHistory) = maxHistory
    /\ submitted[1][1] # view[1].SignalHistory[1]

C3_Inv ==
    \A b \in DOMAIN states :
        /\ states[b].MinSignal = SeqMin(submitted[b])
        /\ states[b].MaxSignal = SeqMax(submitted[b])
        /\ \A k \in 1..Len(states[b].SignalHistory) :
              /\ states[b].MinSignal <= states[b].SignalHistory[k]
              /\ states[b].SignalHistory[k] <= states[b].MaxSignal

C3_Step ==
    \A b \in DOMAIN states :
        /\ b \in DOMAIN states'
        /\ states'[b].MinSignal <= states[b].MinSignal
        /\ states'[b].MaxSignal >= states[b].MaxSignal

\* C3: MinSignal and MaxSignal of every tracked BSSID are the minimum and the
\* maximum of all signals ever submitted for it (a function of the values, not
\* of their order), they bracket every retained sample, MinSignal never
\* increases and MaxSignal never decreases.
C3_RunningExtrema == [](C3_Inv) /\ [][C3_Step]_vars

\* The minimum ever submitted has left the window and is still MinSignal.
C3_Witness ==
    /\ 1 \in DOMAIN states
    /\ Len(submitted[1]) > maxHistory
    /\ states[1].MinSignal \notin Range(states[1].SignalHistory)
    /\ states[1].MinSignal < states[1].MaxSignal

\* C4: Update, Get and Count exclude one another: a thread is between Lock
\* and Unlock only while it holds mu, and whenever a Get or a Count reads the
\* map, or an Update starts on it, the map holds whole Updates only.
C4_MutualExclusion ==
    /\ \A t \in Threads : InCS(t) => mu = t
    /\ \A t \in Threads : pc[t] \in {"GetReturn", "CountReturn"} => Applied
    /\ \A t \in Threads : (pc[t] = "UpdateLoop" /\ frame[t].i = 1) => Applied

\* An Update has created the entry of the first of two networks and not yet
\* appended its sample, while the other thread waits in Get or Count.
C4_Witness ==
    \E t \in Threads, u \in Threads :
        /\ pc[t] = "UpdateAppend"
        /\ frame[t].i = 1 /\ Len(frame[t].networks) = 2
        /\ pc[u] \in {"GetLock", "CountLock"}
        /\ ~Applied

Submitters == UNION {sent[t] : t \in Threads}
DisjointSent == \A t \in Threads, u \in Threads : t # u => sent[t] \cap sent[u] = {}

\* C5: once all calls of threads that passed pairwise disjoint BSSID sets to
\* Update have returned, Count() is the number of distinct BSSIDs submitted
\* and every one of them was returned as new by exactly one call.
C5_DisjointConcurrentUpdates ==
    (Quiescent /\ DisjointSent)
        => /\ Count(states) = Cardinality(Submitters)
           /\ \A b \in Submitters : newCount[b] = 1

\* Both threads have updated, with disjoint sets, one starting while the
\* other's Update was in progress, and all calls have returned.
C5_Witness ==
    /\ Quiescent /\ DisjointSent /\ overlap
    /\ \A t \in Threads : sent[t] # {}

\* C6: what a caller reads through the value Get handed it is what that
\* NetworkState was when Get returned, whatever Updates ran since.
C6_GetReturnsSnapshot ==
    \A t \in Threads : view[t] # NoState => view[t] = snap[t]

\* C7: Get returns nil exactly for a BSSID that no returned Update carried,
\* and otherwise the pointer to that BSSID's NetworkState, which is not nil
\* whatever the signal values are.
C7_GetNilIffUntracked ==
    [][\A t \in Threads :
          (pc[t] = "GetReturn" /\ pc'[t] = "idle")
              => /\ ret'[t].state = NilPtr <=> frame[t].bssid \notin done
                 /\ ret'[t].state # NilPtr
                       => /\ ret'[t].state = frame[t].bssid
                          /\ snap'[t] # NoState
                          /\ snap'[t].BSSID = frame[t].bssid
                          /\ snap'[t].SignalHistory # <<>>]_vars

\* Get returned the state of a BSSID seen with signal 0 only, while the other
\* BSSID is untracked.
C7_Witness ==
    \E t \in Threads :
        /\ ret[t].op = "Get" /\ ret[t].state # NilPtr
        /\ snap[t].SignalHistory = <<0>>
        /\ snap[t].MinSignal = 0 /\ snap[t].MaxSignal = 0
        /\ DOMAIN states # BSSIDs

C8_Inv ==
    /\ \A b \in BSSIDs : newCount[b] <= 1
    /\ (\A t \in Threads : ~UpdateInCS(t)) => Count(states) = Cardinality(done)

C8_Step ==
    /\ DOMAIN states \subseteq DOMAIN states'
    /\ Count(states') >= Count(states)
    /\ \A t \in Threads :
          (pc[t] = "CountReturn" /\ pc'[t] = "idle")
              => ret'[t].count = Cardinality(done)

\* C8: a tracked BSSID stays tracked, Count() never decreases and is the
\* number of distinct BSSIDs the returned Updates carried, and no BSSID is
\* returned as new by more than one Update.
C8_NeverForgets == [](C8_Inv) /\ [][C8_Step]_vars

\* Count returned 1 after one BSSID was submitted twice.
C8_Witness ==
    \E t \in Threads, b \in BSSIDs :
        /\ ret[t].op = "Count" /\ ret[t].count = 1
        /\ Len(submitted[b]) = 2
        /\ newCount[b] = 1

\* The glyph of a level: U+2581 LOWER ONE EIGHTH BLOCK for level 0, one more
\* eighth filled per level, U+2588 FULL BLOCK for level 7.
GlyphOfLevel(l) == 9601 + l

\* (s + 100) * 7 / 80 rounded down, then clamped to 0..7.
FloorLevel(s) ==
    CHOOSE l \in 0..7 :
        /\ l = 0 \/ l * 80 <= (s + 100) * 7
        /\ l = 7 \/ (s + 100) * 7 < (l + 1) * 80

\* (s + 100) * 7 / 80 rounded to the nearest integer, then clamped to 0..7.
RoundLevel(s) ==
    CHOOSE l \in 0..7 :
        /\ l = 0 \/ l * 80 - 40 <= (s + 100) * 7
        /\ l = 7 \/ (s + 100) * 7 < l * 80 + 40

\* C9 as stated: every sample is rendered as the glyph of the level
\* clamp(round((s + 100) * 7 / 80), 0, 7).
C9_RoundedLevel ==
    sparkOut # Unrendered
        => /\ Len(sparkOut) = Len(nsHistory)
           /\ \A k \in 1..Len(nsHistory) :
                 sparkOut[k] = GlyphOfLevel(RoundLevel(nsHistory[k]))

\* C9 amended: every sample is rendered as the glyph of the level
\* clamp(trunc((s + 100) * 7 / 80), 0, 7), the quotient cut to an integer
\* before clamping, glyphs ordered sparsest (level 0) to densest (level 7).
C9_TruncatedLevel ==
    sparkOut # Unrendered
        => /\ Len(sparkOut) = Len(nsHistory)
           /\ \A k \in 1..Len(nsHistory) :
                 sparkOut[k] = GlyphOfLevel(FloorLevel(nsHistory[k]))

\* A sample whose quotient 0.875 rounds to 1 and truncates to 0 was rendered.
C9_Witness ==
    /\ sparkOut # Unrendered
    /\ nsHistory = <<0 - 90>>

\* C10: no samples give the empty string; otherwise there is one glyph per
\* sample, in sample order, -100 and below give the level 0 glyph, -20 and
\* above the level 7 glyph, and a larger sample never gives a sparser glyph.
C10_SparklineShape ==
    sparkOut # Unrendered
        => /\ nsHistory = <<>> => sparkOut = <<>>
           /\ Len(sparkOut) = Len(nsHistory)
           /\ \A k \in 1..Len(nsHistory) :
                 /\ nsHistory[k] <= 0 - 100 => sparkOut[k] = sparkBlocks[1]
                 /\ nsHistory[k] >= 0 - 20 => sparkOut[k] = sparkBlocks[8]
                 /\ \A s \in SparkSamples :
                       s <= nsHistory[k] => Sparkline(<<s>>)[1] <= sparkOut[k]
                 /\ \A j \in 1..Len(nsHistory) :
                       nsHistory[j] <= nsHistory[k] => sparkOut[j] <= sparkOut[k]

\* The history -100, -20 was rendered: sparsest glyph first, densest second.
C10_Witness ==
    /\ nsHistory = <<0 - 100, 0 - 20>>
    /\ sparkOut = <<9601, 9608>>

\* ------------------------------------------------ the parser's claims
\* The fragments parseScanOutput loops over and, of them, those it keeps:
\* unsorted[j] is the record of KeptBlocks[j].
Fragments == Split(output)
KeptBlocks == SelectSeq(Fragments, LAMBDA b : Accepted(Flat(b)))
SameRecords(a, b) ==
    /\ Len(a) = Len(b)
    /\ \A x \in Range(a) \cup Range(b) : Occurrences(a, x) = Occurrences(b, x)

\* C11: the result of parseScanOutput is non-increasing by Signal and holds
\* exactly the records of the accepted blocks, each as often as it was
\* produced: sorting neither drops nor duplicates a record.
C11_SortedPermutation ==
    parseDone =>
        /\ \A k \in 1..(Len(parseOut) - 1) : parseOut[k].Signal >= parseOut[k + 1].Signal
        /\ SameRecords(parseOut, unsorted)
        /\ Len(parseOut) = Len(KeptBlocks)

\* Three records came out, in another order than the blocks came in.
C11_Witness ==
    /\ parseDone
    /\ Len(parseOut) = 3
    /\ parseOut # unsorted
    /\ parseOut[1].Signal > parseOut[3].Signal

\* Where a record of the loop's slice stands in the stable order: after the
\* stronger records and after the equally strong ones of earlier blocks.
StablePlace(recs, i) ==
    1 + Cardinality({j \in 1..Len(recs) :
            \/ recs[j].Signal > recs[i].Signal
            \/ recs[j].Signal = recs[i].Signal /\ j < i})

\* C12: records of equal Signal come out in the order their blocks came in.
C12_StableSort ==
    parseDone =>
        /\ Len(parseOut) = Len(unsorted)
        /\ \A i \in 1..Len(unsorted) : parseOut[StablePlace(unsorted, i)] = unsorted[i]

\* The channel marker of a block, read line by line: the digits that follow
\* the first marker that is followed by digits.
ChannelMarkers(s) ==
    {p \in 1..(Len(s) - 1) : s[p] = "DS Parameter set: channel " /\ s[p + 1] \in Digits}
RECURSIVE DigitsValue(_, _, _)
DigitsValue(s, p, acc) ==
    IF p > Len(s) \/ s[p] \notin Digits THEN acc
    ELSE DigitsValue(s, p + 1, 10 * acc + DigitVal[s[p]])
MarkerChannel(s) ==
    LET p == CHOOSE x \in ChannelMarkers(s) : \A y \in ChannelMarkers(s) : x <= y
    IN DigitsValue(s, p + 1, 0)
\* The table of the claim.
TableChannel(f) ==
    CASE f \in 2412..2472 -> (f - 2407) \div 5
      [] f = 2484 -> 14
      [] f \in 5180..5825 -> (f - 5000) \div 5
      [] f \in 5955..7115 -> (f - 5950) \div 5
      [] OTHER -> 0

\* C13: the Channel of a record is the number of the block's channel marker
\* when it has one, whatever its frequency, and else the table's channel of
\* its Frequency (0 for a frequency outside the table or missing).
C13_ChannelOfRecord ==
    parseDone =>
        LET kept == KeptBlocks
        IN \A j \in 1..Len(unsorted) :
            LET s == Flat(kept[j])
            IN IF ChannelMarkers(s) # {}
               THEN unsorted[j].Channel = MarkerChannel(s)
               ELSE unsorted[j].Channel = TableChannel(unsorted[j].Frequency)

\* A block on 2437 MHz (channel 6 by the table) with the marker "channel 11".
C13_Witness ==
    /\ parseDone
    /\ Len(parseOut) = 1
    /\ parseOut[1].Frequency = 2437
    /\ parseOut[1].Channel = 11

SecurityLabels == {"OPEN", "WEP", "WPA", "WPA2", "WPA2/WPA", "WPA3"}
HasMarker(lines, m) == \E l \in Range(lines) : m \in Range(l)

\* C14: the Security of a record follows the precedence SAE, RSN and WPA,
\* RSN, WPA, Privacy, none, and is one of the six labels.
C14_SecurityPrecedence ==
    parseDone =>
        LET kept == KeptBlocks
        IN \A j \in 1..Len(unsorted) :
            LET b == kept[j]
                sae == HasMarker(b, "SAE")
                rsn == HasMarker(b, "RSN:")
                wpa == HasMarker(b, "WPA:")
                priv == HasMarker(b, "Privacy")
                sec == unsorted[j].Security
            IN /\ sec \in SecurityLabels
               /\ sae => sec = "WPA3"
               /\ ~sae /\ rsn /\ wpa => sec = "WPA2/WPA"
               /\ ~sae /\ rsn /\ ~wpa => sec = "WPA2"
               /\ ~sae /\ ~rsn /\ wpa => sec = "WPA"
               /\ ~sae /\ ~rsn /\ ~wpa /\ priv => sec = "WEP"
               /\ ~sae /\ ~rsn /\ ~wpa /\ ~priv => sec = "OPEN"

\* A block with the RSN, WPA and Privacy markers and no SAE marker.
C14_Witness ==
    /\ parseDone
    /\ Len(parseOut) = 1
    /\ parseOut[1].Security = "WPA2/WPA"
    /\ HasMarker(KeptBlocks[1], "Privacy")

\* Six two-digit upper-case hexadecimal octets separated by colons.
IsCanonical(a) ==
    /\ Len(a) = 17
    /\ \A k \in 1..17 :
          IF k \in {3, 6, 9, 12, 15} THEN a[k] = ":" ELSE a[k] \in Digits \cup HexUpper
StartsWithAddress(s) == Len(s) >= 17 /\ IsCanonical(ToUpper(Slice(s, 1, 18)))

\* C15: every record has a canonical BSSID, and the records are those of
\* the blocks that start with six colon-separated hex octet pairs.
C15_CanonicalBSSID ==
    parseDone =>
        /\ \A j \in 1..Len(parseOut) : IsCanonical(parseOut[j].BSSID)
        /\ Len(parseOut) =
              Cardinality({k \in 1..Len(Fragments) : StartsWithAddress(Flat(Fragments[k]))})

\* C16: no record comes from the fragment that precedes the first marker:
\* the records are those of the fragments after it.
C16_FirstFragmentDiscarded ==
    parseDone =>
        Len(parseOut) =
            Cardinality({k \in 2..Len(Fragments) : Accepted(Flat(Fragments[k]))})

\* The optional fields of a block, read line by line.
IsSSIDLine(l) ==
    /\ l # <<>>
    /\ Head(l) \in Blanks
    /\ \E q \in 1..Len(l) : l[q] = "SSID:" /\ \A k \in 1..(q - 1) : l[k] \in Blanks
SSIDValueBlank(l) ==
    \A q \in 1..Len(l) : l[q] = "SSID:" => \A k \in (q + 1)..Len(l) : l[k] \in Blanks
FirstSSIDLine(b) ==
    b[CHOOSE k \in 1..Len(b) : IsSSIDLine(b[k]) /\ \A j \in 1..(k - 1) : ~IsSSIDLine(b[j])]
Without(b, k) == [j \in 1..(Len(b) - 1) |-> IF j < k THEN b[j] ELSE b[j + 1]]

C18_Inv ==
    tableAt # ZeroTime =>
        \A k \in 1..Len(table) :
            /\ reportedAt[table[k].BSSID] # ZeroTime
            /\ table[k].isNew <=> (tableAt - reportedAt[table[k].BSSID] < 30)
\* A reported address is not reported again, and once its 30 s have passed
\* no table drawn afterwards shows it as new.
C18_Step ==
    \A b \in BSSIDs :
        reportedAt[b] # ZeroTime =>
            /\ reportedAt'[b] = reportedAt[b]
            /\ (clock - reportedAt[b] >= 30 /\ <<table, tableAt>>' # <<table, tableAt>>) =>
                  \A k \in 1..Len(table') : table'[k].BSSID = b => ~table'[k].isNew

\* C18: every row the table draws carries the NEW badge exactly when it is
\* drawn less than 30 seconds after Update reported its address; Update
\* reports an address once, and an address whose 30 seconds have passed is
\* never drawn as new again.
C18_NewBadgeWindow == [](C18_Inv) /\ [][C18_Step]_vars

\* One table with an address reported 29 s before (new) and one reported
\* 30 s before (not new any more).
C18_Witness ==
    /\ tableAt = 31
    /\ \E j, k \in 1..Len(table) :
          /\ reportedAt[table[j].BSSID] = 2 /\ table[j].isNew
          /\ reportedAt[table[k].BSSID] = 1 /\ ~table[k].isNew

\* ------------------------------------------- the tracker's time stamps
\* The address the Update holding the lock is in the middle of: its state may
\* have been created (line 76) and not yet stamped (line 86).
BeingStamped(b) ==
    \E t \in Threads :
        /\ pc[t] = "UpdateLastSeen"
        /\ frame[t].networks[frame[t].i].BSSID = b
\* The entries an Update in progress has dealt with so far.
Stamped(t) == {frame[t].networks[k].BSSID : k \in 1..(frame[t].i - 1)}

\* FirstSeen <= LastSeen for every tracked address (but the one being
\* created under the lock), and every address the Update in progress has
\* dealt with carries that call's time as LastSeen (and, if the call
\* created it, as FirstSeen).
C19_Inv ==
    /\ \A b \in DOMAIN states :
          ~BeingStamped(b) => states[b].FirstSeen <= states[b].LastSeen
    /\ \A t \in Threads :
          pc[t] = "UpdateLoop" =>
              \A b \in Stamped(t) :
                  /\ states[b].LastSeen = frame[t].now
                  /\ b \notin pre[t] => states[b].FirstSeen = frame[t].now
\* FirstSeen never changes and LastSeen never moves backwards.
C19_Step ==
    \A b \in DOMAIN states :
        /\ b \in DOMAIN states'
        /\ states'[b].FirstSeen = states[b].FirstSeen
        /\ states'[b].LastSeen >= states[b].LastSeen

\* C19: FirstSeen <= LastSeen for every tracked address; both are the time
\* of the Update call that first saw it, FirstSeen never changes, and each
\* Update whose batch holds the address sets LastSeen to its own time, which
\* is never earlier than the LastSeen it replaces.
C19_SeenOrder == [](C19_Inv) /\ [][C19_Step]_vars

\* An address first seen at 1 and last seen at 30, by two Updates.
C19_Witness ==
    /\ mu = NoThread
    /\ 1 \in DOMAIN states
    /\ states[1].FirstSeen = 1
    /\ states[1].LastSeen = 30
    /\ Len(states[1].SignalHistory) = 2

\* ---------------------------------------------------------------- C20
ReadPCs == {"GetLock", "GetReturn", "CountLock", "CountReturn"}

\* The step is one of thread t's Get or Count: the call, the Lock or the return.
ReadStep(t) == pc'[t] # pc[t] /\ (pc[t] \in ReadPCs \/ pc'[t] \in ReadPCs)

\* The step is one of thread t's Update: the call, the Lock, a statement of
\* the loop or the return.
UpdateStep(t) ==
    /\ pc'[t] # pc[t] \/ frame'[t] # frame[t]
    /\ pc[t] \in UpdatePCs \/ pc'[t] \in UpdatePCs

\* The batch of the Update thread t is in, or is entering.
BatchOf(t) ==
    IF pc[t] \in UpdatePCs THEN BatchBSSIDs(frame[t].networks)
    ELSE BatchBSSIDs(frame'[t].networks)

\* C20: no step of Get or of Count adds, removes or changes an entry of the
\* Session, so Count is the same before and after a Get, of an unknown
\* address too; and every step of Update(batch) leaves the NetworkState of
\* each tracked address that is not in the batch exactly as it was.
C20_Step ==
    \A t \in Threads :
        /\ ReadStep(t) => states' = states /\ Count(states') = Count(states)
        /\ UpdateStep(t) =>
               \A b \in DOMAIN states \ BatchOf(t) :
                   b \in DOMAIN states' /\ states'[b] = states[b]

C20_ReadOnlyAndFrame == [][C20_Step]_vars

\* A Get of an untracked address has returned nil to one thread while the other
\* is in the loop of an Update whose batch leaves a tracked address out,
\* with two addresses tracked.
C20_Witness ==
    \E t \in Threads, u \in Threads :
        /\ t # u
        /\ ret[t].op = "Get" /\ ret[t].state = NilPtr /\ pc[t] = "idle"
        /\ pc[u] = "UpdateAppend"
        /\ \E b \in DOMAIN states : b \notin BatchBSSIDs(frame[u].networks)
        /\ Count(states) = 2

\* ------------------------------------------------- the scans in flight
\* The scans whose start callback has run and whose completion callback
\* has not.
InFlight == scansRunning

\* C21: the scanning flag is TRUE in every state in which at least one scan
\* is in flight, and FALSE only when none is, also when doScan is started
\* while another doScan is still running.
C21_ScanningFlag == scanning <=> InFlight > 0

\* ------------------------------------------------- the footer's alert
\* C22: a successful scan raises the new-network alert exactly when its
\* Update reported at least one new address and it is not the first scan:
\* the first scan never raises it, every later scan that finds a new
\* address does.
C22_AlertIffNewAndNotFirst ==
    lastDone.n > 0 => (lastDone.alert <=> (lastDone.new > 0 /\ lastDone.n > 1))

====
